---------------------------- MODULE Spec2Model ----------------------------
(***************************************************************************)
(* A model of fitgrid/utils/lmer.py: fit_lmers, get_lmer_AICs,             *)
(* plot_lmer_rERPs (its FDR filter) and get_lmer_dfbetas.                  *)
(*                                                                         *)
(* A pandas table with the MultiIndex (Time, model, param, key) and one    *)
(* column per channel is a sequence of rows                                *)
(*     [Time, model, param, key, val]   with val \in [Chans -> Int].       *)
(* p-values and alpha are integers in units of 0.005 (0.05 is 10, 1.0 is   *)
(* 200); the comparisons of the FDR filter are carried out exactly, by     *)
(* cross-multiplication.                                                   *)
(***************************************************************************)
EXTENDS Integers, Sequences, FiniteSets, TLC

VARIABLES
    fits,        \* what fitgrid.lmer returns for each formula (fixed by the data)
    lmer_coefs,  \* the aggregated coefficient table the caller holds
    fit_call,    \* the last call of fit_lmers: its arguments and outcome
    aics,        \* the outcome of the last call of get_lmer_AICs
    plot,        \* the last call of plot_lmer_rERPs: its arguments and outcome
    epochs,      \* the epochs table get_lmer_dfbetas is given
    dfb          \* the outcome of the last call of get_lmer_dfbetas

vars == <<fits, lmer_coefs, fit_call, aics, plot, epochs, dfb>>

None == [status |-> "none"]

---------------------------------------------------------------------------
(* Bounds *)

\* the longest time series (number of Time values) of a table given to the plot
MaxM == 4
\* the longest list of formulas given to fit_lmers
MaxRHS == 2
\* the number of epochs of the table given to get_lmer_dfbetas
MaxEpochs == 3

---------------------------------------------------------------------------
(* Index values, in the order pandas sorts them (strings compare by code   *)
(* point: "(" < "x", "0" < "1", upper case before lower case).             *)

Chans == <<"c1", "c2">>
ChanSet == {Chans[i] : i \in 1..Len(Chans)}

ModelOrder == <<"0 + x", "1", "1 + x">>
ParamOrder == <<"(Intercept)", "x">>
KeyOrder == <<"AIC", "Estimate", "P-val", "has_warning">>

ModelSet == {ModelOrder[i] : i \in 1..Len(ModelOrder)}
Times == 1..2

\* the fixed-effect parameters lmer reports for a formula
ParamsOf(model) ==
    CASE model = "0 + x" -> {"x"}
      [] model = "1" -> {"(Intercept)"}
      [] model = "1 + x" -> {"(Intercept)", "x"}

\* F applied to the value of v, which is worked out once
Let(v, F(_)) == CHOOSE r \in {F(x) : x \in {v}} : TRUE

\* the sequence f with every element worked out
Eval(f) == SubSeq(f, 1, Len(f))

RankIn(order, s) == CHOOSE i \in 1..Len(order) : order[i] = s

Range(s) == {s[i] : i \in 1..Len(s)}

\* the index tuple (Time, model, param, key) of a row as one number that orders
\* the tuples lexicographically
IndexKey(r) ==
    ((r.Time * (Len(ModelOrder) + 1) + RankIn(ModelOrder, r.model))
        * (Len(ParamOrder) + 1) + RankIn(ParamOrder, r.param))
        * (Len(KeyOrder) + 1) + RankIn(KeyOrder, r.key)

\* a stable sort of s by the numbers keys[i]: s[i] goes to the place that counts the
\* elements with a smaller key and the earlier elements with the same key
PlaceIn(keys, i) ==
    1 + Cardinality({j \in 1..Len(keys) :
                        keys[j] < keys[i] \/ (keys[j] = keys[i] /\ j < i)})

Permute(s, place) == [p \in 1..Len(s) |-> s[CHOOSE i \in 1..Len(s) : place[i] = p]]

PlaceAll(keys) == Eval([i \in 1..Len(keys) |-> PlaceIn(keys, i)])

SortByKey(s, keys) ==
    Let(Eval(s), LAMBDA ss :
        Let(Eval(keys), LAMBDA kk :
            Let(PlaceAll(kk), LAMBDA place : Eval(Permute(ss, place)))))

\* DataFrame.sort_index() on the (Time, model, param, key) MultiIndex
sort_index(tbl) == SortByKey(tbl, [i \in 1..Len(tbl) |-> IndexKey(tbl[i])])

\* Index.unique(): the distinct values in order of first appearance
RECURSIVE UniqueFrom(_, _)
UniqueFrom(seen, s) ==
    IF s = <<>> THEN seen
    ELSE UniqueFrom(IF Head(s) \in Range(seen) THEN seen ELSE Append(seen, Head(s)),
                    Tail(s))

Unique(s) == UniqueFrom(<<>>, s)

\* the sequence that lists the elements of a finite set (in some fixed order)
RECURSIVE SetToSeq(_)
SetToSeq(S) ==
    IF S = {} THEN <<>>
    ELSE Let(CHOOSE y \in S : TRUE, LAMBDA x : <<x>> \o SetToSeq(S \ {x}))

Row(t, model, param, key, val) ==
    [Time |-> t, model |-> model, param |-> param, key |-> key, val |-> val]

---------------------------------------------------------------------------
(* fitgrid.lmer: one fit per (Time, channel) cell for a formula.  fits.aic  *)
(* and fits.warn are what the data make of each formula; the values of the  *)
(* cells differ by time and channel so that the best formula of one cell is *)
(* not the best of another.                                                 *)

AICVals == {0, 1, 2}

AICAt(f, t, c) == IF c = "c1" THEN 10 + fits.aic[f] * t ELSE 20 - fits.aic[f] - t

WarnAt(f, t, c) == IF fits.warn[f] /\ t = 1 THEN 1 ELSE 0

CoefAt(f, param, key, t, c) ==
    RankIn(ModelOrder, f) + 3 * RankIn(ParamOrder, param)
        + 7 * RankIn(KeyOrder, key) + 11 * t + (IF c = "c1" THEN 0 ELSE 50)

\* the FitGrid of one call: .coefs indexed (Time, param, key), .AIC and
\* .has_warning indexed Time, one column per channel
fitgrid_lmer(rhs) ==
    LET params == Eval(SelectSeq(ParamOrder, LAMBDA q : q \in ParamsOf(rhs)))
        cell(t, i, k) ==
            [Time |-> t, param |-> params[i], key |-> k,
             val |-> [c \in ChanSet |-> CoefAt(rhs, params[i], k, t, c)]]
        perTime(t) ==
            [j \in 1..(2 * Len(params)) |->
                cell(t, (j + 1) \div 2, IF j % 2 = 1 THEN "Estimate" ELSE "P-val")]
    IN [coefs |-> Eval(perTime(1) \o perTime(2)),
        AIC |-> [t \in Times |-> [c \in ChanSet |-> AICAt(rhs, t, c)]],
        has_warning |-> [t \in Times |-> [c \in ChanSet |-> WarnAt(rhs, t, c)]]]

---------------------------------------------------------------------------
(* fit_lmers *)

attribs == <<"AIC", "has_warning">>

GetAttr(fg_lmer, attrib) == IF attrib = "AIC" THEN fg_lmer.AIC ELSE fg_lmer.has_warning

\* (a variant that tags the attribute with the first parameter only)
PropagateAttrib_firstonly(coefs_df, rhs, attrib, attrib_df, params) ==
    IF params = <<>> THEN coefs_df
    ELSE Eval(coefs_df \o [t \in Times |-> Row(t, rhs, Head(params), attrib, attrib_df[t])])

\* for param in coefs_df['param'].unique(): coefs_df = coefs_df.append(param_attrib)
RECURSIVE PropagateAttrib(_, _, _, _, _)
PropagateAttrib(coefs_df, rhs, attrib, attrib_df, params) ==
    IF params = <<>> THEN coefs_df
    ELSE LET param_attrib ==
                 [t \in Times |-> Row(t, rhs, Head(params), attrib, attrib_df[t])]
         IN PropagateAttrib(Eval(coefs_df \o param_attrib), rhs, attrib, attrib_df,
                            Tail(params))

\* for attrib in attribs: ...
RECURSIVE ScrapeAttribs(_, _, _, _)
ScrapeAttribs(coefs_df, rhs, fg_lmer, todo) ==
    IF todo = <<>> THEN coefs_df
    ELSE LET params == Unique([i \in 1..Len(coefs_df) |-> coefs_df[i].param])
         IN Let(PropagateAttrib(coefs_df, rhs, Head(todo),
                                GetAttr(fg_lmer, Head(todo)), params),
                LAMBDA grown : ScrapeAttribs(grown, rhs, fg_lmer, Tail(todo)))

\* the body of "for rhs in RHSs": the rows one formula adds to the container
FormulaRows(rhs) ==
    Let(fitgrid_lmer(rhs), LAMBDA fg_lmer :
        Let(Eval([i \in 1..Len(fg_lmer.coefs) |->
                    Row(fg_lmer.coefs[i].Time, rhs, fg_lmer.coefs[i].param,
                        fg_lmer.coefs[i].key, fg_lmer.coefs[i].val)]),
            LAMBDA coefs_df : ScrapeAttribs(coefs_df, rhs, fg_lmer, attribs)))

RECURSIVE CollectFits(_, _)
CollectFits(lmer_coefs_acc, RHSs) ==
    IF RHSs = <<>> THEN lmer_coefs_acc
    ELSE Let(lmer_coefs_acc \o FormulaRows(Head(RHSs)),
             LAMBDA grown : CollectFits(grown, Tail(RHSs)))

\* (a variant without the final sort_index)
RefreshIndex_nosort(tbl) == tbl

\* lmer_coefs.set_index(['param', 'key'], append=True); lmer_coefs.sort_index()
RefreshIndex(tbl) == sort_index(tbl)

\* save_as: None, a value that does not unpack into (fname, group), or a pair;
\* io_ok says whether to_hdf succeeds.  Returns what the try block has done.
SaveAsArgs == {"None", "malformed", "pair"}

\* (a variant that lets the failure through)
TrySave_raising(save_as, io_ok) ==
    IF save_as = "None" THEN [saved |-> FALSE, warned |-> FALSE, raised |-> FALSE]
    ELSE IF save_as = "malformed" \/ ~io_ok
    THEN [saved |-> FALSE, warned |-> FALSE, raised |-> TRUE]
    ELSE [saved |-> TRUE, warned |-> FALSE, raised |-> FALSE]

TrySave(save_as, io_ok) ==
    IF save_as = "None" THEN [saved |-> FALSE, warned |-> FALSE, raised |-> FALSE]
    ELSE IF save_as = "malformed" \/ ~io_ok
    \* except Exception as fail: warnings.warn(...)
    THEN [saved |-> FALSE, warned |-> TRUE, raised |-> FALSE]
    ELSE [saved |-> TRUE, warned |-> FALSE, raised |-> FALSE]

\* the whole call.  With no formula the container has no 'param' column and
\* set_index raises KeyError.
fit_lmers(RHSs, save_as, io_ok) ==
    IF RHSs = <<>>
    THEN [status |-> "KeyError", RHSs |-> RHSs, save_as |-> save_as,
          saved |-> FALSE, warned |-> FALSE, table |-> <<>>]
    ELSE LET tbl == RefreshIndex(CollectFits(<<>>, RHSs))
             save == TrySave(save_as, io_ok)
         IN [status |-> IF save.raised THEN "Exception" ELSE "ok",
             RHSs |-> RHSs, save_as |-> save_as,
             saved |-> save.saved, warned |-> save.warned,
             table |-> IF save.raised THEN <<>> ELSE tbl]

\* lists of distinct formulas, at most MaxRHS long
RHSLists ==
    UNION {{s \in [1..n -> ModelSet] : \A i, j \in 1..n : i # j => s[i] # s[j]}
           : n \in 0..MaxRHS}

CallFitLmers ==
    /\ fit_call.status = "none"
    /\ \E RHSs \in RHSLists, save_as \in SaveAsArgs :
       \E io_ok \in (IF save_as = "pair" THEN BOOLEAN ELSE {TRUE}) :
          \E r \in {fit_lmers(RHSs, save_as, io_ok)} :
             /\ fit_call' = [status |-> r.status, RHSs |-> r.RHSs,
                             save_as |-> r.save_as, io_ok |-> io_ok,
                             saved |-> r.saved, warned |-> r.warned]
             /\ lmer_coefs' = r.table
    /\ UNCHANGED <<fits, aics, plot, epochs, dfb>>

---------------------------------------------------------------------------
(* get_lmer_AICs *)

\* lmer_coefs.loc[pd.IndexSlice[:, :, first_param, key], :]
\*     .reset_index(['key', 'param'], drop=True).stack(0), then sort_index():
\* one entry for each (Time, model, channel), in index order
StackKey(e) ==
    (e.Time * (Len(ModelOrder) + 1) + RankIn(ModelOrder, e.model)) * (Len(Chans) + 1)
        + RankIn(Chans, e.channel)

SortStack(es) == SortByKey(es, [i \in 1..Len(es) |-> StackKey(es[i])])

StackRows(rows) ==
    LET entry(j) == LET r == rows[(j + Len(Chans) - 1) \div Len(Chans)]
                        c == Chans[((j - 1) % Len(Chans)) + 1]
                    IN [Time |-> r.Time, model |-> r.model, channel |-> c,
                        value |-> r.val[c]]
    IN SortStack([j \in 1..(Len(rows) * Len(Chans)) |-> entry(j)])

SliceStack(tbl, first_param, key) ==
    Let(SelectSeq(tbl, LAMBDA r : r.param = first_param /\ r.key = key), StackRows)

\* Python's min() over a sequence of numbers
RECURSIVE PyMinFrom(_, _)
PyMinFrom(least, xs) ==
    IF xs = <<>> THEN least
    ELSE PyMinFrom(IF Head(xs) < least THEN Head(xs) ELSE least, Tail(xs))

PyMin(xs) == PyMinFrom(Head(xs), Tail(xs))

\* (a variant that takes the minimum over the whole table instead of the slice)
MinDelta_allrows(AICs, e) ==
    e.value - PyMin(Eval([i \in 1..Len(AICs) |-> AICs[i].value]))

\* AICs.loc[slicer, 'AIC'] - min(AICs.loc[slicer, 'AIC']) at slicer [time, :, chan]
MinDelta(AICs, e) ==
    Let(SelectSeq(AICs, LAMBDA o : o.Time = e.Time /\ o.channel = e.channel),
        LAMBDA slice : e.value - PyMin(Eval([i \in 1..Len(slice) |-> slice[i].value])))

SameIndex(e1, e2) ==
    e1.Time = e2.Time /\ e1.model = e2.model /\ e1.channel = e2.channel

\* AICs.merge(has_warnings, left_index=True, right_index=True): how='inner', the
\* rows whose index is in both, each with the columns of both
MergeOnIndex(AICs, has_warnings) ==
    LET hw(e) == LET i == CHOOSE i \in 1..Len(has_warnings) :
                              SameIndex(e, has_warnings[i])
                 IN has_warnings[i].value
    IN Let(SelectSeq(AICs, LAMBDA e :
                \E i \in 1..Len(has_warnings) : SameIndex(e, has_warnings[i])),
           LAMBDA kept :
               Eval([i \in 1..Len(kept) |->
                       [Time |-> kept[i].Time, model |-> kept[i].model,
                        channel |-> kept[i].channel, AIC |-> kept[i].AIC,
                        min_delta |-> kept[i].min_delta,
                        has_warning |-> hw(kept[i])]]))

\* the whole call.  unique()[0] of an empty index raises IndexError, .loc with
\* a label that no row has raises KeyError.
get_lmer_AICs(tbl) ==
    IF tbl = <<>> THEN [status |-> "IndexError", table |-> <<>>]
    ELSE
    LET first_param == Unique([i \in 1..Len(tbl) |-> tbl[i].param])[1]
        AICs(stacked) ==
            Eval([i \in 1..Len(stacked) |->
                    [Time |-> stacked[i].Time, model |-> stacked[i].model,
                     channel |-> stacked[i].channel, AIC |-> stacked[i].value,
                     min_delta |-> MinDelta(stacked, stacked[i])]])
    IN Let(SliceStack(tbl, first_param, "AIC"), LAMBDA stacked :
       Let(SliceStack(tbl, first_param, "has_warning"), LAMBDA has_warnings :
           IF stacked = <<>> \/ has_warnings = <<>>
           THEN [status |-> "KeyError", table |-> <<>>]
           ELSE Let(AICs(stacked), LAMBDA with_delta :
                    [status |-> "ok",
                     table |-> MergeOnIndex(with_delta, has_warnings)])))

CallGetLmerAICs ==
    /\ aics.status = "none"
    /\ fit_call.status \in {"ok", "given"}
    /\ \E r \in {get_lmer_AICs(lmer_coefs)} : aics' = r
    /\ UNCHANGED <<fits, lmer_coefs, fit_call, plot, epochs, dfb>>

FitData ==
    {[aic |-> a, warn |-> w] : a \in [ModelSet -> AICVals], w \in [ModelSet -> BOOLEAN]}

\* fit_lmers, then get_lmer_AICs on the table it returned
InitFit ==
    /\ fits \in FitData
    /\ lmer_coefs = <<>>
    /\ fit_call = None
    /\ aics = None
    /\ plot = None
    /\ epochs = None
    /\ dfb = None

NextFit == CallFitLmers \/ CallGetLmerAICs

SpecFit == InitFit /\ [][NextFit]_vars

\* get_lmer_AICs on a table the caller hands in: any sorted table made of the
\* AIC and has_warning rows of the intercept of the formulas "1" and "1 + x"
AttribRows ==
    {Row(t, f, "(Intercept)", "AIC", [c \in ChanSet |-> AICAt(f, t, c)])
        : t \in Times, f \in {"1", "1 + x"}}
    \cup {Row(t, f, "(Intercept)", "has_warning", [c \in ChanSet |-> WarnAt(f, t, c)])
        : t \in Times, f \in {"1", "1 + x"}}

InitAICs ==
    /\ fits \in {d \in FitData : \A f \in ModelSet : ~d.warn[f] /\ d.aic["0 + x"] = 0}
    /\ lmer_coefs \in {sort_index(SetToSeq(S)) : S \in SUBSET AttribRows}
    /\ fit_call = [status |-> "given"]
    /\ aics = None
    /\ plot = None
    /\ epochs = None
    /\ dfb = None

NextAICs == CallGetLmerAICs

SpecAICs == InitAICs /\ [][NextAICs]_vars

---------------------------------------------------------------------------
(* plot_lmer_rERPs: the FDR filter *)

\* Series.sort_values(): ascending
sort_values(ps) == SortByKey(ps, ps)

\* c(m) as the fraction <<numerator, denominator>>: 1 for BH, and for BY the sum
\* of 1/i for i in 1..m, added up in that order
RECURSIVE HarmonicFrom(_, _, _)
HarmonicFrom(sum, i, m) ==
    IF i > m THEN sum
    ELSE HarmonicFrom(<<sum[1] * i + sum[2], sum[2] * i>>, i + 1, m)

Harmonic(m) == HarmonicFrom(<<0, 1>>, 1, m)

\* (a variant with the two branches exchanged)
c_m_swapped(fdr, m) == IF fdr = "BY" THEN <<1, 1>> ELSE Harmonic(m)

c_m(fdr, m) == IF fdr = "BH" THEN <<1, 1>> ELSE Harmonic(m)

\* (a variant that ranks from 1, as the textbook step-up procedure does)
IsCandidate_rank1(k, p, m, cm, alpha) == p * m * cm[1] <= (k + 1) * cm[2] * alpha

\* p <= (k / (m * c_m)) * alpha, for the 0-based rank k
IsCandidate(k, p, m, cm, alpha) == p * m * cm[1] <= k * cm[2] * alpha

\* ks: the 0-based ranks of the sorted p-values that pass the test
CandidateRanks(pvals, m, cm, alpha) ==
    Let(cm, LAMBDA c : {k \in 0..(Len(pvals) - 1) :
                          IsCandidate(k, pvals[k + 1], m, c, alpha)})

SetMax(S) == CHOOSE x \in S : \A y \in S : y <= x

\* (a variant whose fallback is 1.0 instead of 0.0)
CritP_default1(pvals, m, fdr, alpha) ==
    Let(CandidateRanks(pvals, m, c_m(fdr, m), alpha), LAMBDA ks :
        IF ks # {} THEN pvals[SetMax(ks) + 1] ELSE 200)

\* crit_p: the sorted p-value at the largest candidate rank, else 0.0
CritP(pvals, m, fdr, alpha) ==
    Let(CandidateRanks(pvals, m, c_m(fdr, m), alpha), LAMBDA ks :
        IF ks # {} THEN pvals[SetMax(ks) + 1] ELSE 0)

\* fg_lmer_coef['P-val'] < crit_p
SigFdr(p, crit_p) == p < crit_p

\* lmer_coefs.loc[pd.IndexSlice[:, :, coef], col].unstack(level='key'): one row
\* for each (Time, model) of the rows with that param, sorted, with the value of
\* its P-val entry in column col
GroupKey(g) == g.Time * (Len(ModelOrder) + 1) + RankIn(ModelOrder, g.model)

SortGroups(gs) == SortByKey(gs, [i \in 1..Len(gs) |-> GroupKey(gs[i])])

SliceCoef(tbl, coef, col) ==
    LET pval(rows, g) == LET r == CHOOSE r \in rows :
                                      /\ r.Time = g.Time
                                      /\ r.model = g.model
                                      /\ r.key = "P-val"
                         IN r.val[col]
    IN Let({tbl[i] : i \in {j \in 1..Len(tbl) : tbl[j].param = coef}}, LAMBDA rows :
           SortGroups(SetToSeq({[Time |-> g.Time, model |-> g.model, param |-> coef,
                                 Pval |-> pval(rows, g)]
                                : g \in {[Time |-> r.Time, model |-> r.model]
                                            : r \in rows}})))


\* LHS is a str or a list of str: if isinstance(LHS, str): LHS = [LHS]
StrLHS(col) == [isstr |-> TRUE, str |-> col, list |-> <<>>]
ListLHS(cols) == [isstr |-> FALSE, str |-> "", list |-> cols]
NormLHS(LHS) == IF LHS.isstr THEN <<LHS.str>> ELSE LHS.list

\* the (col, coef) pairs in the order of "for col in LHS: for coef in coefs"
RECURSIVE ColCoefPairs(_, _)
ColCoefPairs(cols, coefs) ==
    IF cols = <<>> THEN <<>>
    ELSE [i \in 1..Len(coefs) |-> [col |-> Head(cols), coef |-> coefs[i]]]
         \o ColCoefPairs(Tail(cols), coefs)

FdrIsValid(fdr) == fdr \in {"BH", "BY"}

\* one pass of the loop body for (col, coef), from the state acc of the call
PlotOne(tbl, pc, alpha, fdr, acc) ==
    Let(SliceCoef(tbl, pc.coef, pc.col), LAMBDA fg_lmer_coef :
    Let(Len(fg_lmer_coef), LAMBDA m :
    Let(sort_values([i \in 1..m |-> fg_lmer_coef[i].Pval]), LAMBDA pvals :
        \* plt.subplots(), the slice and the sort come before the test of fdr
        LET begun == [acc EXCEPT !.created = @ + 1,
                                 !.sliced = @ + 1,
                                 !.sorted = @ + 1]
        IN IF ~FdrIsValid(fdr)
           THEN [begun EXCEPT !.status = "ValueError"]
           ELSE Let(CritP(pvals, m, fdr, alpha), LAMBDA crit_p :
                    [begun EXCEPT !.figs = Append(@,
                        [col |-> pc.col,
                         coef |-> pc.coef,
                         series |-> fg_lmer_coef,
                         m |-> m,
                         pvals |-> pvals,
                         crit_p |-> crit_p,
                         sig_fdr |-> Eval([i \in 1..m |->
                                        SigFdr(fg_lmer_coef[i].Pval, crit_p)])])]))))

RECURSIVE PlotLoop(_, _, _, _, _)
PlotLoop(tbl, pairs, alpha, fdr, acc) ==
    IF pairs = <<>> \/ acc.status # "ok" THEN acc
    ELSE Let(PlotOne(tbl, Head(pairs), alpha, fdr, acc),
             LAMBDA after : PlotLoop(tbl, Tail(pairs), alpha, fdr, after))

\* the whole call: what it has done when it returns or raises
plot_lmer_rERPs(LHS, tbl, alpha, fdr) ==
    LET cols == NormLHS(LHS)
        coefs == Unique([i \in 1..Len(tbl) |-> tbl[i].param])
        start == [status |-> "ok", created |-> 0, sliced |-> 0, sorted |-> 0,
                  figs |-> <<>>]
    IN Let(PlotLoop(tbl, Eval(ColCoefPairs(cols, coefs)), alpha, fdr, start),
           LAMBDA done :
               [status |-> done.status,
                LHS |-> LHS, alpha |-> alpha, fdr |-> fdr,
                created |-> done.created, sliced |-> done.sliced,
                sorted |-> done.sorted,
                \* figs is returned only when nothing was raised
                figs |-> IF done.status = "ok" THEN done.figs ELSE <<>>])

\* alpha levels: 0.025, 0.05 (the default), 0.1
Alphas == {5, 10, 20}
FdrArgs == {"BH", "BY", "bonferroni"}
LHSArgs == {ListLHS(<<>>), StrLHS("c1"), ListLHS(<<"c1">>), ListLHS(<<"c2">>),
            ListLHS(<<"c1", "c2">>)}

\* one call is followed for each table: a call reads nothing of an earlier one
CallPlot ==
    /\ plot.status = "none"
    /\ \E LHS \in LHSArgs, alpha \in Alphas, fdr \in FdrArgs :
          \E r \in {plot_lmer_rERPs(LHS, lmer_coefs, alpha, fdr)} : plot' = r
    /\ UNCHANGED <<fits, lmer_coefs, fit_call, aics, epochs, dfb>>

(* The tables the plot is given.  Column c1 holds the p-values under test,  *)
(* column c2 holds 1.0 throughout.                                          *)
PVals == {1, 2, 6, 8}

PRow(t, model, param, p) ==
    Row(t, model, param, "P-val", [c \in ChanSet |-> IF c = "c1" THEN p ELSE 200])

\* one formula with the single parameter x, over the times 1..T
SeriesTables ==
    UNION {{[t \in 1..T |-> PRow(t, "0 + x", "x", ps[t])] : ps \in [1..T -> PVals]}
           : T \in 1..MaxM}

\* several formulas over the times 1..2: the p-value of x depends on the formula
\* and the time, the p-value of the intercept is 0.03
GridTables ==
    {sort_index(SetToSeq(
        {PRow(t, f, "x", px[f] * t) : t \in 1..2,
                                      f \in {g \in fs : "x" \in ParamsOf(g)}}
        \cup {PRow(t, f, "(Intercept)", 6) : t \in 1..2,
                 f \in {g \in fs : "(Intercept)" \in ParamsOf(g)}}))
     : px \in [Range(ModelOrder) -> {1, 4}],
       fs \in {S \in SUBSET Range(ModelOrder) : Cardinality(S) >= 2}}

PlotTables == {<<>>} \cup SeriesTables \cup GridTables

InitPlot ==
    /\ lmer_coefs \in PlotTables
    /\ plot = None
    /\ fits = None
    /\ fit_call = None
    /\ aics = None
    /\ epochs = None
    /\ dfb = None

NextPlot == CallPlot

SpecPlot == InitPlot /\ [][NextPlot]_vars

---------------------------------------------------------------------------
(* get_lmer_dfbetas *)

(* The epochs table has one row per epoch: its epoch_id, the level of the   *)
(* grouping factor, and a datum y from which the channel values at each     *)
(* time derive.  fitgrid.lmer on a set of rows stands for the fit: its      *)
(* estimates and standard errors are sums over the rows it is given, so     *)
(* that they depend on exactly which rows those are; a standard error is    *)
(* positive.  It cannot fit an empty table.                                 *)

Levels == {"a", "b", "c"}
YVals == {0, 1, 2}

DataAt(row, t, c) == IF c = "c1" THEN row.y ELSE row.y + t

RECURSIVE SumSeq(_, _)
SumSeq(total, xs) == IF xs = <<>> THEN total ELSE SumSeq(total + Head(xs), Tail(xs))

lmer_estimate(rows, t, param, c) ==
    IF param = "(Intercept)"
    THEN SumSeq(0, Eval([i \in 1..Len(rows) |-> DataAt(rows[i], t, c)]))
    ELSE SumSeq(0, Eval([i \in 1..Len(rows) |-> rows[i].epoch_id * DataAt(rows[i], t, c)]))

lmer_se(rows, t, param, c) ==
    IF param = "(Intercept)" THEN Len(rows) ELSE Len(rows) + t

\* .coefs of the fit of the given rows: (Time, param) -> key -> channel -> value
lmer_coefs_of(rows) ==
    [tp \in Times \X Range(ParamOrder) |->
        [Estimate |-> [c \in ChanSet |-> lmer_estimate(rows, tp[1], tp[2], c)],
         SE |-> [c \in ChanSet |-> lmer_se(rows, tp[1], tp[2], c)]]]

\* (a variant that drops the rows of the level after the one asked for)
LeaveOut_shifted(table, levels, i) ==
    SelectSeq(table, LAMBDA row : row.factor # levels[(i % Len(levels)) + 1])

\* table[table[factor] != level] for the i-th level
LeaveOut(table, levels, i) ==
    SelectSeq(table, LAMBDA row : row.factor # levels[i])

\* (all_levels_estimate - level_excluded_estimate) / level_excluded_se, as the
\* fraction <<numerator, denominator>>
DfbetasValue(all_levels_estimate, looo_estimate, looo_se) ==
    <<all_levels_estimate - looo_estimate, looo_se>>

\* the whole call: the fits it asked for, in order, and the table it returns
get_lmer_dfbetas(table) ==
    Let(Unique(Eval([i \in 1..Len(table) |-> table[i].factor])), LAMBDA levels :
    Let(Eval([i \in 1..Len(levels) |-> LeaveOut(table, levels, i)]), LAMBDA looo_epochs :
        IF \E i \in 1..Len(looo_epochs) : looo_epochs[i] = <<>>
        THEN [status |-> "error", fitted |-> <<>>, levels |-> levels, table |-> {}]
        ELSE
        \* pd.concat(coefs, keys=levels, axis=1): the i-th fit under the i-th level
        Let([i \in 1..Len(levels) |-> lmer_coefs_of(looo_epochs[i])], LAMBDA looo_coefs :
        Let(lmer_coefs_of(table), LAMBDA all_levels_coefs :
            [status |-> "ok",
             fitted |-> Append(looo_epochs, table),
             levels |-> levels,
             table |->
                {[Time |-> tp[1], param |-> tp[2], level |-> levels[i],
                  val |-> [c \in ChanSet |->
                             DfbetasValue(all_levels_coefs[tp].Estimate[c],
                                          looo_coefs[i][tp].Estimate[c],
                                          looo_coefs[i][tp].SE[c])]]
                 : tp \in Times \X Range(ParamOrder), i \in 1..Len(levels)}]))))

CallGetLmerDfbetas ==
    /\ dfb.status = "none"
    /\ \E r \in {get_lmer_dfbetas(epochs)} : dfb' = r
    /\ UNCHANGED <<fits, lmer_coefs, fit_call, aics, plot, epochs>>

EpochTables ==
    {[e \in 1..MaxEpochs |-> [epoch_id |-> e, factor |-> lv[e], y |-> ys[e]]]
        : lv \in [1..MaxEpochs -> Levels], ys \in [1..MaxEpochs -> YVals]}

InitDfbetas ==
    /\ epochs \in EpochTables
    /\ dfb = None
    /\ fits = None
    /\ lmer_coefs = <<>>
    /\ fit_call = None
    /\ aics = None
    /\ plot = None

NextDfbetas == CallGetLmerDfbetas

SpecDfbetas == InitDfbetas /\ [][NextDfbetas]_vars

---------------------------------------------------------------------------
(* Claims about plot_lmer_rERPs *)

Figs == {plot.figs[i] : i \in 1..Len(plot.figs)}
Returned == plot.status = "ok"

SeriesP(fig) == [i \in 1..Len(fig.series) |-> fig.series[i].Pval]

CountOf(v, s) == Cardinality({i \in 1..Len(s) : s[i] = v})

IsAscendingSortOf(sorted, s) ==
    /\ Len(sorted) = Len(s)
    /\ \A i \in 1..(Len(sorted) - 1) : sorted[i] <= sorted[i + 1]
    /\ \A v \in Range(s) \cup Range(sorted) : CountOf(v, sorted) = CountOf(v, s)

RECURSIVE Factorial(_)
Factorial(n) == IF n = 0 THEN 1 ELSE n * Factorial(n - 1)

RECURSIVE SumOver(_, _)
SumOver(f(_), S) ==
    IF S = {} THEN 0
    ELSE LET x == CHOOSE y \in S : TRUE IN f(x) + SumOver(f, S \ {x})

\* c(m) * m!: m! for BH, m! * (1 + 1/2 + ... + 1/m) for BY
CmTimesFactorial(fdr, m) ==
    LET term(i) == Factorial(m) \div i
    IN IF fdr = "BH" THEN Factorial(m) ELSE SumOver(term, 1..m)

\* rank k is a candidate iff p_k <= (k / (m * c(m))) * alpha
CandidateSpec(fig, fdr, alpha) ==
    {k \in 0..(fig.m - 1) :
        fig.pvals[k + 1] * fig.m * CmTimesFactorial(fdr, fig.m)
            <= k * Factorial(fig.m) * alpha}

FilterAsSpecified(fig, fdr, alpha) ==
    LET cand == CandidateSpec(fig, fdr, alpha)
    IN /\ fig.m = Len(fig.series)
       /\ IsAscendingSortOf(fig.pvals, SeriesP(fig))
       /\ cand = {} => fig.crit_p = 0
       /\ cand # {} => /\ \A k \in cand : k + 1 <= SetMax(cand) + 1
                       /\ fig.crit_p = fig.pvals[SetMax(cand) + 1]
       /\ \A i \in 1..fig.m : fig.sig_fdr[i] <=> (SeriesP(fig)[i] < fig.crit_p)
       /\ cand = {} => \A i \in 1..fig.m : ~fig.sig_fdr[i]

\* C2: every series the filter has processed has its p-values sorted ascending,
\* its critical p-value is the sorted p-value at the largest 0-based rank k with
\* p_k <= (k / (m c(m))) alpha, or 0 when there is none, and a point is flagged
\* iff its p-value is strictly below the critical p-value; a series of 1.0 has
\* no flagged point, and [0.01, 0.04, 0.03, 0.005] at alpha 0.05 under BH has the
\* critical p-value 0.01 and only 0.005 flagged.
C2_FdrFilter ==
    Returned =>
        \A fig \in Figs :
            /\ FilterAsSpecified(fig, plot.fdr, plot.alpha)
            /\ (\A i \in 1..fig.m : SeriesP(fig)[i] = 200) =>
                   /\ fig.crit_p = 0
                   /\ \A i \in 1..fig.m : ~fig.sig_fdr[i]
            /\ (SeriesP(fig) = <<2, 8, 6, 1>> /\ plot.alpha = 10 /\ plot.fdr = "BH") =>
                   /\ fig.crit_p = 2
                   /\ fig.sig_fdr = <<FALSE, FALSE, FALSE, TRUE>>

C2_Witness ==
    /\ Returned
    /\ plot.alpha = 10
    /\ plot.fdr = "BH"
    /\ \E fig \in Figs : SeriesP(fig) = <<2, 8, 6, 1>> /\ fig.crit_p = 2
    /\ \E fig \in Figs : /\ \A i \in 1..fig.m : SeriesP(fig)[i] = 200
                         /\ fig.crit_p = 0

\* C3: the p-values that enter one threshold computation come from a single
\* formula and a single parameter.
C3_OneFormulaPerSeries ==
    Returned =>
        \A fig \in Figs :
            /\ Cardinality({fig.series[i].model : i \in 1..fig.m}) <= 1
            /\ Cardinality({fig.series[i].param : i \in 1..fig.m}) <= 1

\* C4: a call with an fdr selector outside {BH, BY} ends in ValueError, and has
\* created no figure, sliced no table and sorted no p-values by then.
C4_InvalidFdrFailsFirst ==
    (plot.status # "none" /\ plot.fdr \notin {"BH", "BY"}) =>
        /\ plot.status = "ValueError"
        /\ plot.created = 0
        /\ plot.sliced = 0
        /\ plot.sorted = 0

\* C9: for the p-values and the method of every processed series, the critical
\* p-value is non-decreasing in alpha: it is at most the critical p-value of any
\* larger alpha and at least that of any smaller alpha.
C9_CritMonotoneInAlpha ==
    Returned =>
        \A fig \in Figs : \A a \in Alphas :
            /\ plot.alpha <= a => fig.crit_p <= CritP(fig.pvals, fig.m, plot.fdr, a)
            /\ a <= plot.alpha => CritP(fig.pvals, fig.m, plot.fdr, a) <= fig.crit_p

C9_Witness ==
    /\ Returned
    /\ \E fig \in Figs : \E a \in Alphas :
          /\ plot.alpha < a
          /\ 0 < fig.crit_p
          /\ fig.crit_p < CritP(fig.pvals, fig.m, plot.fdr, a)

\* C10: for every processed series of m > 1 p-values, the critical p-value under
\* BY is at most the critical p-value under BH at the same alpha.
C10_ByAtMostBh ==
    Returned =>
        \A fig \in Figs :
            fig.m > 1 =>
                /\ plot.fdr = "BY" =>
                       fig.crit_p <= CritP(fig.pvals, fig.m, "BH", plot.alpha)
                /\ plot.fdr = "BH" =>
                       CritP(fig.pvals, fig.m, "BY", plot.alpha) <= fig.crit_p

C10_Witness ==
    /\ Returned
    /\ plot.fdr = "BY"
    /\ \E fig \in Figs :
          /\ fig.m > 1
          /\ fig.crit_p < CritP(fig.pvals, fig.m, "BH", plot.alpha)

---------------------------------------------------------------------------
(* Claims about fit_lmers and get_lmer_AICs *)

AicRows == {aics.table[i] : i \in 1..Len(aics.table)}

\* C1: in every table get_lmer_AICs returns, at every (Time, channel) of the
\* table each min_delta is AIC minus the least AIC of the formulas at that Time
\* and channel, so none is negative and at least one is 0.
C1_MinDelta ==
    aics.status = "ok" =>
        \A r \in AicRows :
            LET cell == {o \in AicRows : o.Time = r.Time /\ o.channel = r.channel}
            IN /\ \A o \in cell : o.min_delta >= 0
               /\ \E o \in cell : o.min_delta = 0
               /\ \A o \in cell : r.AIC - r.min_delta <= o.AIC
               /\ \E o \in cell : r.AIC - r.min_delta = o.AIC

C1_Witness ==
    /\ aics.status = "ok"
    /\ \E r, o \in AicRows :
          /\ r.Time = o.Time /\ r.channel = o.channel /\ r.model # o.model
          /\ r.min_delta = 0 /\ o.min_delta > 0
    /\ \E r, o \in AicRows :
          /\ r.model = o.model /\ r.min_delta = 0 /\ o.min_delta > 0

\* the table of a set of formulas, row by row in index order: for each Time, each
\* formula, each of its parameters and each key, the value of the fit
ExpectedRowsAt(t, f, param) ==
    <<Row(t, f, param, "AIC", [c \in ChanSet |-> AICAt(f, t, c)]),
      Row(t, f, param, "Estimate", [c \in ChanSet |-> CoefAt(f, param, "Estimate", t, c)]),
      Row(t, f, param, "P-val", [c \in ChanSet |-> CoefAt(f, param, "P-val", t, c)]),
      Row(t, f, param, "has_warning", [c \in ChanSet |-> WarnAt(f, t, c)])>>

RECURSIVE Flatten(_)
Flatten(ss) == IF ss = <<>> THEN <<>> ELSE Head(ss) \o Flatten(Tail(ss))

ExpectedTable(fs) ==
    LET models == SelectSeq(ModelOrder, LAMBDA f : f \in fs)
        params(f) == SelectSeq(ParamOrder, LAMBDA q : q \in ParamsOf(f))
        ofModel(t, f) == Flatten([i \in 1..Len(params(f)) |->
                                     ExpectedRowsAt(t, f, params(f)[i])])
        ofTime(t) == Flatten([i \in 1..Len(models) |-> ofModel(t, models[i])])
    IN ofTime(1) \o ofTime(2)

SaveFailed ==
    \/ fit_call.save_as = "malformed"
    \/ fit_call.save_as = "pair" /\ ~fit_call.io_ok

\* C5: when save_as is given and the persistence step fails, the call still
\* returns, a warning has been emitted, and the returned table is the table of
\* the same formulas with save_as=None.
C5_SaveFailureIsWarning ==
    (fit_call.status \notin {"none", "given"} /\ fit_call.RHSs # <<>> /\ SaveFailed) =>
        /\ fit_call.status = "ok"
        /\ fit_call.warned
        /\ lmer_coefs = ExpectedTable(Range(fit_call.RHSs))

C5_Witness ==
    /\ fit_call.status = "ok"
    /\ fit_call.save_as = "pair"
    /\ ~fit_call.io_ok
    /\ fit_call.warned
    /\ Len(lmer_coefs) > 0

\* C6: when the (Time, model, channel) keys of the AIC rows and of the
\* has_warning rows of the reference parameter differ, get_lmer_AICs fails
\* instead of returning a table.
AttribKeys(key) ==
    LET first_param == lmer_coefs[1].param
    IN {<<lmer_coefs[i].Time, lmer_coefs[i].model>> :
           i \in {j \in 1..Len(lmer_coefs) :
                     lmer_coefs[j].param = first_param /\ lmer_coefs[j].key = key}}

C6_MisalignedKeysFail ==
    (aics.status # "none" /\ lmer_coefs # <<>>
        /\ AttribKeys("AIC") # AttribKeys("has_warning")) =>
        aics.status # "ok"

\* C8: the table fit_lmers returns is the table of the set of its formulas,
\* whatever their order in RHSs, and the rows of each formula in it are the rows
\* of that formula fitted alone.
C8_OrderIndependent ==
    fit_call.status = "ok" =>
        /\ lmer_coefs = ExpectedTable(Range(fit_call.RHSs))
        /\ \A f \in Range(fit_call.RHSs) :
              SelectSeq(lmer_coefs, LAMBDA r : r.model = f) = ExpectedTable({f})

C8_Witness ==
    /\ fit_call.status = "ok"
    /\ Len(fit_call.RHSs) >= 2
    /\ RankIn(ModelOrder, fit_call.RHSs[1]) > RankIn(ModelOrder, fit_call.RHSs[2])
    /\ lmer_coefs[1].model = fit_call.RHSs[2]

\* the rows of the returned table under (Time, model, param) with the given key
AttribRowsAt(t, f, param, key) ==
    {i \in 1..Len(lmer_coefs) :
        /\ lmer_coefs[i].Time = t /\ lmer_coefs[i].model = f
        /\ lmer_coefs[i].param = param /\ lmer_coefs[i].key = key}

\* the distinct parameters of the coefficient table of the fit of a formula
CoefParams(fg_lmer) == {fg_lmer.coefs[i].param : i \in 1..Len(fg_lmer.coefs)}

\* C11: in the table fit_lmers returns, for every fitted formula, every Time
\* and every distinct parameter of that formula's coefficient table there is
\* exactly one 'AIC' row and exactly one 'has_warning' row under that (Time,
\* model, param), whose per-channel values are the AIC and has_warning of that
\* formula's own fit at that Time; no row of a formula carries the AIC or the
\* warning of another formula.
C11_AttribsOnEveryParam ==
    fit_call.status = "ok" =>
        /\ \A f \in Range(fit_call.RHSs) :
              Let(fitgrid_lmer(f), LAMBDA fg_lmer :
                  \A t \in Times, param \in CoefParams(fg_lmer), attrib \in Range(attribs) :
                      Let(AttribRowsAt(t, f, param, attrib), LAMBDA found :
                          /\ Cardinality(found) = 1
                          /\ \A i \in found :
                                lmer_coefs[i].val = GetAttr(fg_lmer, attrib)[t]))
        /\ \A i \in 1..Len(lmer_coefs) :
              LET r == lmer_coefs[i]
              IN r.key \in Range(attribs) =>
                    /\ r.model \in Range(fit_call.RHSs)
                    /\ r.val = GetAttr(fitgrid_lmer(r.model), r.key)[r.Time]

\* two formulas fitted together, one with two parameters, whose AIC and warning
\* differ at Time 1
C11_Witness ==
    /\ fit_call.status = "ok"
    /\ Len(fit_call.RHSs) = 2
    /\ \E f, g \in Range(fit_call.RHSs) :
          /\ f # g
          /\ Cardinality(ParamsOf(f)) = 2
          /\ fits.aic[f] # fits.aic[g]
          /\ fits.warn[f] # fits.warn[g]
          /\ \A param \in ParamsOf(f) :
                /\ Cardinality(AttribRowsAt(1, f, param, "AIC")) = 1
                /\ Cardinality(AttribRowsAt(1, f, param, "has_warning")) = 1

\* the (Time, model, channel) cells that fit_lmers fitted
FittedCells ==
    {<<t, f, c>> : t \in Times, f \in Range(fit_call.RHSs), c \in ChanSet}

\* the rows of the AIC table at a cell
AicRowsAt(cell) ==
    {i \in 1..Len(aics.table) :
        <<aics.table[i].Time, aics.table[i].model, aics.table[i].channel>> = cell}

\* C12: for every table fit_lmers produced, get_lmer_AICs returns exactly one
\* row for each fitted (Time, formula, channel), also when the formulas have
\* different parameter sets: no fitted formula is missing and no row is
\* duplicated; with a single formula each (Time, channel) cell has exactly one
\* row and its min_delta is 0.
C12_OneRowPerFittedCell ==
    (fit_call.status = "ok" /\ aics.status # "none") =>
        /\ aics.status = "ok"
        /\ \A cell \in FittedCells : Cardinality(AicRowsAt(cell)) = 1
        /\ Len(aics.table) = Cardinality(FittedCells)
        /\ Len(fit_call.RHSs) = 1 =>
              \A i \in 1..Len(aics.table) : aics.table[i].min_delta = 0

---------------------------------------------------------------------------
(* Claims about get_lmer_dfbetas *)

EpochRows == {epochs[i] : i \in 1..Len(epochs)}
EpochLevels == {row.factor : row \in EpochRows}

\* the rows a fit was given, as a set
FittedRows(i) == {dfb.fitted[i][j] : j \in 1..Len(dfb.fitted[i])}

Without(L) == {row \in EpochRows : row.factor # L}

EstimateOn(rows, t, param, c) ==
    LET datum(row) == IF param = "(Intercept)" THEN DataAt(row, t, c)
                      ELSE row.epoch_id * DataAt(row, t, c)
    IN SumOver(datum, rows)

SeOn(rows, t, param, c) ==
    IF param = "(Intercept)" THEN Cardinality(rows) ELSE Cardinality(rows) + t

=============================================================================
